---- MODULE Spec2Model ----
(***************************************************************************)
(* Rod cutting: rod_cutting_memo (top-down, memoized) and                  *)
(* rod_cutting_table (bottom-up) of task_2.py, run on the same input.      *)
(* Python's prices[i-1] is prices[i] here (sequences are 1-based).         *)
(***************************************************************************)
EXTENDS Integers, Sequences, FiniteSets, TLC

\* length, prices  the arguments of both calls
\* phase           "memo": rod_cutting_memo runs; "table", "fill", "recon":
\*                 rod_cutting_table allocates, fills, reconstructs; "done"
\* memo            rod_cutting_memo's cache: n -> (profit, cuts)
\* stack           the running helper calls, innermost last
\* memoOut         what rod_cutting_memo gave its caller
\* dp, first_cut   rod_cutting_table's two tables, indexed 0..length
\* j, cuts, rem    its outer loop variable and its reconstruction variables
\* tableOut        what rod_cutting_table gave its caller
\* prev            the profits the caller got for the rod one shorter, if any
\* scans, writes   history: the n of every candidate scan started and of every
\*                 store into memo, in order
VARIABLES length, prices, phase, memo, stack, memoOut,
          dp, first_cut, j, cuts, rem, tableOut, prev, scans, writes

vars == <<length, prices, phase, memo, stack, memoOut,
          dp, first_cut, j, cuts, rem, tableOut, prev, scans, writes>>

\* ------------------------------------------------------------- bounds
MaxLen == 4
MaxPrice == 3

\* ---------------------------------------------- numbers with -infinity
\* -float('inf'): below every number, absorbing under addition.
NegInf == [fin |-> FALSE, val |-> 0]

Fin(v) == [fin |-> TRUE, val |-> v]

Add(a, b) == IF a.fin /\ b.fin THEN Fin(a.val + b.val) ELSE NegInf

Gt(a, b) == a.fin /\ (~b.fin \/ a.val > b.val)

Ge(a, b) == ~b.fin \/ (a.fin /\ a.val >= b.val)

\* ------------------------------------------------------------- inputs
RECURSIVE SeqsUpTo(_, _)
SeqsUpTo(S, n) ==
    IF n = 0 THEN {<<>>}
    ELSE LET shorter == SeqsUpTo(S, n - 1)
         IN  shorter \cup {Append(s, x) : s \in {t \in shorter : Len(t) = n - 1}, x \in S}

\* The three cases of run_tests.
TestCases ==
    { [length |-> 5, prices |-> <<2, 5, 7, 8, 10>>],
      [length |-> 3, prices |-> <<1, 3, 8>>],
      [length |-> 4, prices |-> <<3, 5, 6, 7>>] }

\* The calls within the bounds, valid or not: a length that may be negative,
\* a price table that may be too short or hold a negative price. A table
\* holds at most one entry more than the length, as no entry past the length
\* is ever read.
Inputs ==
    TestCases \cup
    { in \in [length : (-1)..MaxLen, prices : SeqsUpTo((-1)..MaxPrice, MaxLen)] :
          Len(in.prices) <= in.length + 1 }

\* The input constraints both contracts state.
ValidInput ==
    /\ length >= 0
    /\ Len(prices) >= length
    /\ \A k \in 1..Len(prices) : prices[k] >= 0

\* ------------------------------------------------------------ results
Pending == [status |-> "pending", max_profit |-> NegInf, cuts |-> <<>>, number_of_cuts |-> 0]

\* An exception left the call: no dictionary is returned.
IndexError == [status |-> "error", max_profit |-> NegInf, cuts |-> <<>>, number_of_cuts |-> 0]

\* The returned dictionary.
MakeResult(profit, cs) ==
    [status |-> "ok", max_profit |-> profit, cuts |-> cs,
     number_of_cuts |-> IF cs # <<>> THEN Len(cs) - 1 ELSE 0]

Reverse(s) == [k \in 1..Len(s) |-> s[Len(s) + 1 - k]]

EmptyTable == [k \in {} |-> 0]

EmptyMemo == [k \in {} |-> [profit |-> NegInf, cuts |-> <<>>]]

NoPrev == [set |-> FALSE, memo |-> NegInf, table |-> NegInf]

\* ------------------------------------------------- rod_cutting_memo
\* A running helper(n): its loop variable and its running best.
NewFrame(n) == [n |-> n, i |-> 1, max_profit |-> NegInf, best_cuts |-> <<>>]

\* helper(m) when it returns at once: the base case or the cache.
Cached(m) == IF m = 0 THEN [profit |-> Fin(0), cuts |-> <<>>] ELSE memo[m]

\* Faulty variant: the cache is never consulted.
ReturnsAtOnceNoCache(m) == m = 0

ReturnsAtOnce(m) == m = 0 \/ m \in DOMAIN memo

\* Faulty variant: the loop stops one candidate early: range(1, n).
LastCandidateShort(n) == n - 1

\* The last first cut the loop tries: range(1, n + 1).
LastCandidate(n) == n

\* Faulty variant: the profit of the remainder is forgotten.
TotalProfitNoRest(current_profit, remaining_profit) == current_profit

TotalProfit(current_profit, remaining_profit) == Add(current_profit, remaining_profit)

\* Faulty variant: every candidate replaces the running best.
ImprovesAlways(total_profit, max_profit) == TRUE

Improves(total_profit, max_profit) == Gt(total_profit, max_profit)

\* Faulty variant: the cuts of the remainder are forgotten.
BestCutsNoRest(i, remaining_cuts) == <<i>>

BestCuts(i, remaining_cuts) == <<i>> \o remaining_cuts

\* One pass of the loop body of frame f once helper(f.n - f.i) returned r.
Update(f, r) ==
    LET total_profit == TotalProfit(Fin(prices[f.i]), r.profit)
    IN  IF Improves(total_profit, f.max_profit)
        THEN [f EXCEPT !.max_profit = total_profit,
                       !.best_cuts = BestCuts(f.i, r.cuts),
                       !.i = f.i + 1]
        ELSE [f EXCEPT !.i = f.i + 1]

Top == stack[Len(stack)]

Pop == SubSeq(stack, 1, Len(stack) - 1)

TableVarsUnchanged == UNCHANGED <<dp, first_cut, j, cuts, rem, tableOut>>

MemoVarsUnchanged == UNCHANGED <<memo, stack, memoOut, scans, writes>>

\* rod_cutting_memo calls helper(length).
MemoCall ==
    /\ phase = "memo"
    /\ stack = <<>>
    /\ IF ReturnsAtOnce(length)
       THEN /\ memoOut' = MakeResult(Cached(length).profit, Cached(length).cuts)
            /\ phase' = "table"
            /\ UNCHANGED <<stack, scans>>
       ELSE /\ stack' = <<NewFrame(length)>>
            /\ scans' = Append(scans, length)
            /\ UNCHANGED <<memoOut, phase>>
    /\ UNCHANGED <<length, prices, memo, writes, prev>>
    /\ TableVarsUnchanged

\* One iteration of the running helper's loop: read prices[i-1], call
\* helper(n-i); the call returns at once or a new helper starts.
MemoIterate ==
    /\ phase = "memo"
    /\ stack # <<>>
    /\ Top.i <= LastCandidate(Top.n)
    /\ IF Top.i > Len(prices)
       THEN /\ memoOut' = IndexError
            /\ stack' = <<>>
            /\ phase' = "table"
            /\ UNCHANGED scans
       ELSE LET m == Top.n - Top.i
            IN  IF ReturnsAtOnce(m)
                THEN /\ stack' = Append(Pop, Update(Top, Cached(m)))
                     /\ UNCHANGED <<memoOut, phase, scans>>
                ELSE /\ stack' = Append(stack, NewFrame(m))
                     /\ scans' = Append(scans, m)
                     /\ UNCHANGED <<memoOut, phase>>
    /\ UNCHANGED <<length, prices, memo, writes, prev>>
    /\ TableVarsUnchanged

\* The running helper's loop is over: memo[n] is stored and returned, to the
\* calling helper's loop body or to rod_cutting_memo, which builds the result.
MemoStore ==
    /\ phase = "memo"
    /\ stack # <<>>
    /\ Top.i > LastCandidate(Top.n)
    /\ LET r == [profit |-> Top.max_profit, cuts |-> Top.best_cuts]
       IN  /\ memo' = [k \in DOMAIN memo \cup {Top.n} |-> IF k = Top.n THEN r ELSE memo[k]]
           /\ writes' = Append(writes, Top.n)
           /\ IF Len(stack) = 1
              THEN /\ stack' = <<>>
                   /\ memoOut' = MakeResult(r.profit, r.cuts)
                   /\ phase' = "table"
              ELSE /\ stack' = Append(SubSeq(stack, 1, Len(stack) - 2),
                                      Update(stack[Len(stack) - 1], r))
                   /\ UNCHANGED <<memoOut, phase>>
    /\ UNCHANGED <<length, prices, scans, prev>>
    /\ TableVarsUnchanged

\* ------------------------------------------------ rod_cutting_table
\* Faulty variant: the profit of the remainder is forgotten.
CandidateProfitNoRest(price, rest) == price

CandidateProfit(price, rest) == Add(price, rest)

\* Faulty variant: only a strictly better candidate replaces the running best.
TableImprovesStrict(profit, best) == Gt(profit, best)

TableImproves(profit, best) == Ge(profit, best)

\* The inner loop for one j, from candidate i down to 1.
RECURSIVE ScanFrom(_, _, _, _, _)
ScanFrom(d, jj, i, best, fc) ==
    IF i < 1 THEN [err |-> FALSE, best |-> best, fc |-> fc]
    ELSE IF i > Len(prices) THEN [err |-> TRUE, best |-> best, fc |-> fc]
    ELSE LET profit == CandidateProfit(Fin(prices[i]), d[jj - i])
         IN  IF TableImproves(profit, best)
             THEN ScanFrom(d, jj, i - 1, profit, i)
             ELSE ScanFrom(d, jj, i - 1, best, fc)

InnerScan(d, jj) == ScanFrom(d, jj, jj, NegInf, first_cut[jj])

\* The two tables are allocated and dp[0] is set.
TableInit ==
    /\ phase = "table"
    /\ IF length + 1 <= 0
       THEN /\ tableOut' = IndexError
            /\ phase' = "done"
            /\ UNCHANGED <<dp, first_cut, j>>
       ELSE /\ dp' = [k \in 0..length |-> Fin(0)]
            /\ first_cut' = [k \in 0..length |-> 0]
            /\ j' = 1
            /\ phase' = "fill"
            /\ UNCHANGED tableOut
    /\ UNCHANGED <<length, prices, cuts, rem, prev>>
    /\ MemoVarsUnchanged

\* One pass of the outer loop: dp[j] and first_cut[j].
TableFill ==
    /\ phase = "fill"
    /\ j <= length
    /\ LET s == InnerScan(dp, j)
       IN  IF s.err
           THEN /\ tableOut' = IndexError
                /\ phase' = "done"
                /\ UNCHANGED <<dp, first_cut, j>>
           ELSE /\ dp' = [dp EXCEPT ![j] = s.best]
                /\ first_cut' = [first_cut EXCEPT ![j] = s.fc]
                /\ j' = j + 1
                /\ UNCHANGED <<tableOut, phase>>
    /\ UNCHANGED <<length, prices, cuts, rem, prev>>
    /\ MemoVarsUnchanged

\* The tables are full: the reconstruction starts at the whole rod.
TableReconStart ==
    /\ phase = "fill"
    /\ j > length
    /\ cuts' = <<>>
    /\ rem' = length
    /\ phase' = "recon"
    /\ UNCHANGED <<length, prices, dp, first_cut, j, tableOut, prev>>
    /\ MemoVarsUnchanged

\* Faulty variant: the cut point itself is taken off the remainder too.
NextRemOffByOne(r, fc) == r - fc - 1

NextRem(r, fc) == r - fc

\* One pass of the reconstruction loop.
TableReconStep ==
    /\ phase = "recon"
    /\ rem > 0
    /\ cuts' = Append(cuts, first_cut[rem])
    /\ rem' = NextRem(rem, first_cut[rem])
    /\ UNCHANGED <<length, prices, phase, dp, first_cut, j, tableOut, prev>>
    /\ MemoVarsUnchanged

\* Faulty variant: the collected cuts are returned as collected.
ReturnedCutsAsCollected(cs) == cs

\* The order in which the collected cuts are returned.
ReturnedCuts(cs) == Reverse(cs)

\* The loop is over: the cuts are reversed and the result is returned.
TableReturn ==
    /\ phase = "recon"
    /\ rem <= 0
    /\ tableOut' = MakeResult(dp[length], ReturnedCuts(cuts))
    /\ phase' = "done"
    /\ UNCHANGED <<length, prices, dp, first_cut, j, cuts, rem, prev>>
    /\ MemoVarsUnchanged

\* ---------------------------------------------------------- the caller
\* A fresh pair of calls: nothing of an earlier call is kept but what the
\* caller remembers of its results.
Fresh(l, p, pv) ==
    /\ length = l
    /\ prices = p
    /\ phase = "memo"
    /\ memo = EmptyMemo
    /\ stack = <<>>
    /\ memoOut = Pending
    /\ dp = EmptyTable
    /\ first_cut = EmptyTable
    /\ j = 0
    /\ cuts = <<>>
    /\ rem = 0
    /\ tableOut = Pending
    /\ prev = pv
    /\ scans = <<>>
    /\ writes = <<>>

Init == \E in \in Inputs : Fresh(in.length, in.prices, NoPrev)

\* The caller solves again with the price table extended by one entry for
\* the new, larger length (once, and within the bound on the length).
Extend(p) ==
    /\ phase = "done"
    /\ ~prev.set
    /\ ValidInput
    /\ Len(prices) = length
    /\ length < MaxLen
    /\ length' = length + 1
    /\ prices' = Append(prices, p)
    /\ prev' = [set |-> TRUE, memo |-> memoOut.max_profit, table |-> tableOut.max_profit]
    /\ phase' = "memo"
    /\ memo' = EmptyMemo
    /\ stack' = <<>>
    /\ memoOut' = Pending
    /\ dp' = EmptyTable
    /\ first_cut' = EmptyTable
    /\ j' = 0
    /\ cuts' = <<>>
    /\ rem' = 0
    /\ tableOut' = Pending
    /\ scans' = <<>>
    /\ writes' = <<>>

Next ==
    \/ MemoCall
    \/ MemoIterate
    \/ MemoStore
    \/ TableInit
    \/ TableFill
    \/ TableReconStart
    \/ TableReconStep
    \/ TableReturn
    \/ \E p \in 0..MaxPrice : Extend(p)

Spec == Init /\ [][Next]_vars

\* ============================================================ properties
RECURSIVE Sum(_)
Sum(s) == IF s = <<>> THEN 0 ELSE s[1] + Sum(Tail(s))

\* Every way of writing n as an ordered sum of positive integers.
RECURSIVE Compositions(_)
Compositions(n) ==
    IF n = 0 THEN {<<>>}
    ELSE UNION {{<<k>> \o c : c \in Compositions(n - k)} : k \in 1..n}

\* What the segments of c sell for.
RECURSIVE Price(_)
Price(c) == IF c = <<>> THEN 0 ELSE prices[c[1]] + Price(Tail(c))

\* The best total over all the ways of cutting a rod of length n.
OptProfit(n) ==
    LET totals == {Price(c) : c \in Compositions(n)}
    IN  CHOOSE t \in totals : \A u \in totals : u <= t

Returned == phase = "done"

BothOk == memoOut.status = "ok" /\ tableOut.status = "ok"

\* C1: on every valid input both solvers return, and return the same
\* max_profit.
C1_SameProfit ==
    (Returned /\ ValidInput) =>
        /\ BothOk
        /\ memoOut.max_profit.fin
        /\ memoOut.max_profit = tableOut.max_profit

\* A valid rod of length >= 3 with a positive profit on which the two
\* solvers returned different cut lists.
C1_Witness ==
    /\ Returned /\ ValidInput /\ BothOk
    /\ length >= 3
    /\ memoOut.max_profit.val > 0
    /\ memoOut.cuts # tableOut.cuts

\* C2: on every valid input each solver's max_profit is the maximum over all
\* ordered decompositions of length of the summed segment prices, and the
\* returned cuts sell for exactly max_profit.
C2_Optimal ==
    (Returned /\ ValidInput) =>
        /\ BothOk
        /\ memoOut.max_profit = Fin(OptProfit(length))
        /\ tableOut.max_profit = Fin(OptProfit(length))
        /\ \A k \in 1..Len(memoOut.cuts) : memoOut.cuts[k] \in 1..Len(prices)
        /\ \A k \in 1..Len(tableOut.cuts) : tableOut.cuts[k] \in 1..Len(prices)
        /\ Price(memoOut.cuts) = memoOut.max_profit.val
        /\ Price(tableOut.cuts) = tableOut.max_profit.val

\* A valid rod of length >= 3 whose optimum is a proper cutting: more than
\* one segment, not all of length 1, and better than selling it whole.
C2_Witness ==
    /\ Returned /\ ValidInput /\ BothOk
    /\ length >= 3
    /\ Len(memoOut.cuts) \in 2..(length - 1)
    /\ memoOut.max_profit.val > prices[length]

\* C3: on every valid input each solver's cuts are positive integers that sum
\* to length, and cuts is empty exactly when length is 0.
C3_CutsSumToLength ==
    (Returned /\ ValidInput) =>
        /\ BothOk
        /\ \A k \in 1..Len(memoOut.cuts) : memoOut.cuts[k] >= 1
        /\ \A k \in 1..Len(tableOut.cuts) : tableOut.cuts[k] >= 1
        /\ Sum(memoOut.cuts) = length
        /\ Sum(tableOut.cuts) = length
        /\ (memoOut.cuts = <<>>) <=> (length = 0)
        /\ (tableOut.cuts = <<>>) <=> (length = 0)

\* A valid rod cut into three or more segments by both solvers.
C3_Witness ==
    /\ Returned /\ ValidInput /\ BothOk
    /\ Len(memoOut.cuts) >= 3
    /\ Len(tableOut.cuts) >= 3
    /\ Sum(tableOut.cuts) = length

\* C4: on every invalid input (negative length, too few prices, or a negative
\* price) both solvers end in an error and neither returns a dictionary.
C4_InvalidRejected ==
    (Returned /\ ~ValidInput) =>
        /\ memoOut.status = "error"
        /\ tableOut.status = "error"

\* C5 as claimed: length 4 with prices 3,5,6,7 gives profit 12 and cuts 2,2
\* from both solvers.
C5_TwoTwos ==
    (Returned /\ length = 4 /\ prices = <<3, 5, 6, 7>>) =>
        /\ BothOk
        /\ memoOut.max_profit = Fin(12) /\ tableOut.max_profit = Fin(12)
        /\ memoOut.cuts = <<2, 2>> /\ tableOut.cuts = <<2, 2>>

\* C5, amended: length 4 with prices 3,5,6,7 gives profit 12 and four segments
\* of length 1 (three cuts) from both solvers.
C5_FourOnes ==
    (Returned /\ length = 4 /\ prices = <<3, 5, 6, 7>>) =>
        /\ BothOk
        /\ memoOut.max_profit = Fin(12) /\ tableOut.max_profit = Fin(12)
        /\ memoOut.cuts = <<1, 1, 1, 1>> /\ tableOut.cuts = <<1, 1, 1, 1>>
        /\ memoOut.number_of_cuts = 3 /\ tableOut.number_of_cuts = 3

\* Both solvers returned on the third case of run_tests.
C5_Witness ==
    /\ Returned /\ BothOk
    /\ length = 4 /\ prices = <<3, 5, 6, 7>>
    /\ ~prev.set

\* C6: when a valid price table with exactly length entries is extended by a
\* non-negative price and solved for length + 1, neither solver's max_profit
\* is below what it returned for the shorter rod.
C6_Monotone ==
    (Returned /\ prev.set) =>
        /\ BothOk
        /\ prev.memo.fin /\ prev.table.fin
        /\ memoOut.max_profit.fin /\ tableOut.max_profit.fin
        /\ memoOut.max_profit.val >= prev.memo.val
        /\ tableOut.max_profit.val >= prev.table.val

\* A re-solve of an extended rod of length >= 3 whose new entry is the lowest
\* price of the table and which left the profit exactly where it was.
C6_Witness ==
    /\ Returned /\ prev.set /\ BothOk
    /\ length >= 3
    /\ prices[length] < prices[length - 1]
    /\ prev.memo.val > 0
    /\ memoOut.max_profit.val = prev.memo.val

\* The profit of cutting i first from a rod of length n, then the best of the
\* remainder.
FirstCutValue(n, i) == prices[i] + OptProfit(n - i)

\* The smallest first cut of a rod of length n that reaches the optimum.
SmallestBestCut(n) ==
    CHOOSE i \in 1..n :
        /\ FirstCutValue(n, i) = OptProfit(n)
        /\ \A k \in 1..(i - 1) : FirstCutValue(n, k) < OptProfit(n)

\* C7: on every valid input, for every sub-length n in 1..length, first_cut[n]
\* of the table solver equals the head of memo[n]'s cut list, and both are the
\* smallest first cut that reaches the best profit for n.
C7_TieBreaksAgree ==
    (Returned /\ ValidInput) =>
        \A n \in 1..length :
            /\ n \in DOMAIN memo /\ n \in DOMAIN first_cut
            /\ memo[n].cuts # <<>>
            /\ first_cut[n] = Head(memo[n].cuts)
            /\ first_cut[n] = SmallestBestCut(n)

\* A valid rod for which two different first cuts tie for the best profit and
\* the smaller one was recorded.
C7_Witness ==
    /\ Returned /\ ValidInput /\ BothOk
    /\ length >= 3
    /\ \E i \in 1..length :
           /\ i > first_cut[length]
           /\ FirstCutValue(length, i) = OptProfit(length)

\* C8 as claimed: the table solver's cuts start with first_cut[length] and are
\* element by element the cuts the memoized solver returns.
C8_SameSequence ==
    (Returned /\ ValidInput /\ length > 0) =>
        /\ BothOk
        /\ tableOut.cuts # <<>>
        /\ tableOut.cuts[1] = first_cut[length]
        /\ tableOut.cuts = memoOut.cuts

\* C8, amended: the table solver's cuts END with first_cut[length], the first
\* cut chosen for the whole rod, and are the memoized solver's cuts read
\* backwards.
C8_ReversedSequence ==
    (Returned /\ ValidInput /\ length > 0) =>
        /\ BothOk
        /\ tableOut.cuts # <<>>
        /\ tableOut.cuts[Len(tableOut.cuts)] = first_cut[length]
        /\ memoOut.cuts[1] = first_cut[length]
        /\ tableOut.cuts = Reverse(memoOut.cuts)

\* A valid rod whose optimal cutting is not a palindrome: the two solvers
\* return different sequences.
C8_Witness ==
    /\ Returned /\ ValidInput /\ BothOk
    /\ Len(tableOut.cuts) >= 2
    /\ tableOut.cuts[1] # first_cut[length]
    /\ tableOut.cuts # memoOut.cuts

NoRepeat(s) == \A a, b \in 1..Len(s) : a # b => s[a] # s[b]

\* A step of the same rod_cutting_memo call (not a new call's fresh cache).
SameCall == ~(phase = "done" /\ phase' = "memo")

\* memo only grows, and what it holds never changes.
MemoAppendOnly ==
    SameCall => \A n \in DOMAIN memo : n \in DOMAIN memo' /\ memo'[n] = memo[n]

\* A request for a length the cache holds starts no scan and writes nothing.
ServedFromCache ==
    ( /\ phase = "memo" /\ stack # <<>>
      /\ Top.i <= Top.n /\ Top.i <= Len(prices)
      /\ (Top.n - Top.i) \in DOMAIN memo )
    => (scans' = scans /\ memo' = memo /\ Len(stack') = Len(stack))

\* C9: within one rod_cutting_memo call the candidate scan starts at most once
\* per sub-length, memo[n] is written at most once and never changed or
\* removed, and a request for a cached length is served without a new scan.
C9_ComputedOnce ==
    /\ [](NoRepeat(scans) /\ NoRepeat(writes))
    /\ [][MemoAppendOnly /\ ServedFromCache]_vars

\* A helper whose previous request was for a sub-length >= 1 that an earlier,
\* deeper helper had already stored: it was served from the cache.
C9_Witness ==
    /\ phase = "memo" /\ stack # <<>>
    /\ Top.i >= 3
    /\ Top.n - (Top.i - 1) >= 1
    /\ (Top.n - (Top.i - 1)) \in DOMAIN memo
    /\ Len(writes) >= 2
    /\ Top.max_profit.fin

\* C10: on every valid input the filled first_cut[n] lies in 1..n for every n
\* in 1..length; so during the reconstruction rem stays in 0..length, every
\* collected cut is at least 1 and they sum to length - rem (at most length
\* iterations), and the loop ends with rem exactly 0.
C10_ReconstructionEnds ==
    (phase \in {"recon", "done"} /\ ValidInput) =>
        /\ \A n \in 1..length : first_cut[n] \in 1..n
        /\ rem \in 0..length
        /\ \A k \in 1..Len(cuts) : cuts[k] >= 1
        /\ Sum(cuts) = length - rem
        /\ Len(cuts) <= length
        /\ (phase = "done" => rem = 0 /\ tableOut.status = "ok")

\* A valid rod of length >= 3 whose reconstruction took at least two
\* iterations and ended at 0.
C10_Witness ==
    /\ phase = "done" /\ ValidInput /\ tableOut.status = "ok"
    /\ length >= 3
    /\ Len(cuts) >= 2
    /\ rem = 0

====
